---- MODULE Spec2Model ----
(***************************************************************************)
(* State-machine model of the HyperChat bot adapter (lib/HCAdapter.js,     *)
(* lib/SDKLoader.js, lib/AvailabilityChecker.js).                          *)
(*                                                                         *)
(* The adapter runs on one JavaScript thread.  Every promise chain is      *)
(* modelled as a flow with a program counter: pc[f] names the step of the  *)
(* chain that flow f is at; an asynchronous step has been issued and is    *)
(* awaiting its result, a synchronous step is about to run.  steps[f] is   *)
(* the history of adapter methods the flow has called, in call order.      *)
(***************************************************************************)
EXTENDS Integers, Sequences, FiniteSets, TLC

\* ------------------------------------------------------------------ bounds
MaxFlows == 2
MaxChats == 2
MaxMsgs == 2
MaxUnread == 1
MaxShown == 2
MaxLoads == 2
MaxHist == 2
MaxTime == 3
MaxParses == 2

Flows == 1..MaxFlows
ChatIds == 1..MaxChats
Msgs == 1..MaxMsgs

\* this.chat before any assignment (undefined) and after clearChat ({})
ChatUndefined == -1
ChatEmpty == 0

SystemMessages == {"wait-for-agent", "no-agents", "chat-closed",
                   "file-extension-not-allowed", "download-transcript"}

VARIABLES
    \* browser / bot UI
    cookie,          \* the HyperChat cookie "i.cc" is present
    inputEnabled,    \* bot text input enabled (enableInput / disableInput)
    uploadButton,    \* upload-media button visible
    closeButton,     \* close button visible
    shown,           \* system message key -> times displayed
    \* configuration (Conf)
    conf,
    \* adapter object
    chat,            \* this.chat: ChatUndefined, ChatEmpty or a chat id
    botState,        \* this.botState: "unset", "empty", "closeVisible", "closeHidden"
    monitoring,      \* chat handed to ICF.Helper.monitorUserActivity (0: none)
    emitted,         \* public event -> times triggered
    errors,          \* console.error / console.log("Error!") calls
    timers,          \* pending 5 s fallback timers
    lastClosedTime,  \* storage key lastClosedTime: times written
    closeHandled,    \* _onChatClosed has run since a chat was last attached or cleared
    \* SDK loader
    script,          \* "none", "loading", "loaded": the inbenta-jssdk script tag
    isInit,          \* ICF.isInit
    initCalls,       \* ICF.init() calls in flight
    \* live-chat service / ICF.Lobby
    lobbyLogged,     \* ICF.Lobby.logged
    lobbyChats,      \* keys of ICF.Lobby.chats
    svc,             \* chat id -> "none", "open", "closed" at the service
    listeners,       \* chat id -> listener sets registered by _initChatListeners
    closedEvent,     \* chat ids whose chat:closed event is in flight
    infoEvent,       \* chat ids whose system:info notification is in flight
    lobbyListeners,  \* system:info handlers added to ICF.Lobby
    closing,         \* chat ids whose close(), asked for by the user, is in flight
    unread,          \* messages of the user's chat not yet read (missed on reload)
    transcript,      \* user and agent messages displayed in the chat box, in order
    eventData,       \* public event -> where the data last emitted with it came from
    previousToken,   \* storage key previousToken holds a token
    survey,          \* storage key survey: "none", "pending", "answered"
    surveyWindow,    \* the custom conversation window shows the survey
    \* flows
    ready,           \* the bot's ready event has fired
    kind,            \* flow -> "none", "start", "restore"
    pc,              \* flow -> step
    steps,           \* flow -> methods called so far
    target,          \* flow -> chat the agent search was issued on
    found,           \* flow -> "none", "agent", "noAgent": search result
    avail,           \* flow -> outcome of check(), until chat creation settles
    err,             \* flow -> the rejection the flow last met ("none": no step has
                     \* failed); it is what the flow's catch receives
    \* user messages, by the id the bot gave them
    status,          \* message -> tick the bot shows, the last updateMessage action
    externalId,      \* message -> external id the bot holds: "none", "event", "message"
    callback,        \* message -> the SDK has yet to call onMessageCreateCallback
    promise,         \* message -> sendMessage/sendMedia promise: "none", "pending",
                     \* "resolved", "rejected", "notAllowed" (rejected with the 403
                     \* 'File type is not allowed')
    handled,         \* message -> what the bot event handler did with it
    sends,           \* message -> chat.sendMessage() calls made for it
    lastEvent,       \* the chat event last handled; seq flips with every event
    \* bot and window events
    lastOption,      \* the system-message option last handled and what was done with it
    lastActivity,    \* the user:activity event last handled and what was done with it
    typing,          \* the bot shows the agent's typing indicator
    loads,           \* adapters constructed after the first (page reloads)
    \* bot history import
    history,         \* the bot's conversation transcript handed to _parseBotHistory
    filterTime,      \* its filterTime argument (0: none)
    setup,           \* the configuration stored in Conf, and the configure() or
                     \* constructor call last made with what came of it
    parsed           \* the messages _parseBotHistory returned

worldVars == <<cookie, inputEnabled, uploadButton, closeButton, shown, chat, botState,
               monitoring, emitted, errors, timers, lastClosedTime, closeHandled,
               lobbyLogged, lobbyChats, svc, listeners, closedEvent, unread,
               transcript, infoEvent, lobbyListeners, closing, eventData, previousToken,
               survey, surveyWindow>>
loaderVars == <<script, isInit, initCalls>>
flowVars == <<ready, kind, pc, steps, target, found, avail, err>>
msgVars == <<status, externalId, callback, promise, handled, sends, lastEvent>>
hostVars == <<lastOption, lastActivity, typing, loads, history, filterTime, parsed, setup>>
vars == <<worldVars, conf, loaderVars, flowVars, msgVars, hostVars>>

PublicEvents == {"chat:created", "chat:closed", "ticket:created"}

\* ------------------------------------------------------- adapter state record
\* The fields the adapter's methods read and write, gathered so that a method
\* calling other methods is the composition of their effects in call order.
World ==
    [cookie |-> cookie, inputEnabled |-> inputEnabled, uploadButton |-> uploadButton,
     closeButton |-> closeButton, shown |-> shown, chat |-> chat, botState |-> botState,
     monitoring |-> monitoring, emitted |-> emitted, errors |-> errors,
     timers |-> timers, lastClosedTime |-> lastClosedTime,
     closeHandled |-> closeHandled,
     lobbyLogged |-> lobbyLogged, lobbyChats |-> lobbyChats, svc |-> svc,
     listeners |-> listeners, closedEvent |-> closedEvent, unread |-> unread,
     transcript |-> transcript, infoEvent |-> infoEvent,
     lobbyListeners |-> lobbyListeners, closing |-> closing, eventData |-> eventData,
     previousToken |-> previousToken, survey |-> survey,
     surveyWindow |-> surveyWindow]

Commit(w) ==
    /\ cookie' = w.cookie
    /\ inputEnabled' = w.inputEnabled
    /\ uploadButton' = w.uploadButton
    /\ closeButton' = w.closeButton
    /\ shown' = w.shown
    /\ chat' = w.chat
    /\ botState' = w.botState
    /\ monitoring' = w.monitoring
    /\ emitted' = w.emitted
    /\ errors' = w.errors
    /\ timers' = w.timers
    /\ lastClosedTime' = w.lastClosedTime
    /\ closeHandled' = w.closeHandled
    /\ lobbyLogged' = w.lobbyLogged
    /\ lobbyChats' = w.lobbyChats
    /\ svc' = w.svc
    /\ listeners' = w.listeners
    /\ closedEvent' = w.closedEvent
    /\ unread' = w.unread
    /\ transcript' = w.transcript
    /\ infoEvent' = w.infoEvent
    /\ lobbyListeners' = w.lobbyListeners
    /\ closing' = w.closing
    /\ eventData' = w.eventData
    /\ previousToken' = w.previousToken
    /\ survey' = w.survey
    /\ surveyWindow' = w.surveyWindow

\* isEmpty(this.chat): undefined and {} are both empty
isEmptyChat(c) == c \notin ChatIds

\* this.chat.id: undefined unless a chat is attached
chatIdOf(c) == IF c \in ChatIds THEN c ELSE 0

\* variant: the session is judged by the chat handle instead of the cookie
isChatOpenByHandle(w) == ~isEmptyChat(w.chat)

isChatOpen(w) == w.cookie

setConnectingMode(w) == [w EXCEPT !.inputEnabled = FALSE]

setConnectedMode(w) == [w EXCEPT !.inputEnabled = TRUE]

displayMessage(w, key) == [w EXCEPT !.shown[key] = @ + 1]

showWaitingForAgent(w) == displayMessage(w, "wait-for-agent")

showNoAgents(w) == displayMessage(w, "no-agents")

\* trigger(ev, [data]): data is "delivered" when it is the object the platform
\* event handed to the handler, "wrapped" when it is that object inside a new
\* one, "part" when it is a field of it, "built" when the adapter made it
trigger(w, ev, data) == [w EXCEPT !.emitted[ev] = @ + 1, !.eventData[ev] = data]

\* ------------------------------------------------------------ bot UI state
\* getCurrentBotState: the snapshot keeps whether the close button was visible;
\* getSessionData may return nothing (or throw), leaving the snapshot empty
getCurrentBotState(w, hasData) ==
    [w EXCEPT !.botState = IF ~hasData THEN "empty"
                           ELSE IF w.closeButton THEN "closeVisible" ELSE "closeHidden"]

restorePreviousBotState(w) ==
    IF w.botState \in {"closeVisible", "closeHidden"}
    THEN [w EXCEPT !.closeButton = (w.botState = "closeVisible")]
    ELSE w

showAllButtons(w) ==
    [w EXCEPT !.uploadButton = IF conf.fileUploadsActive THEN TRUE ELSE @,
              !.closeButton = IF conf.showCloseButton THEN TRUE ELSE @]

hideAllButtons(w) ==
    [w EXCEPT !.uploadButton = IF conf.fileUploadsActive THEN FALSE ELSE @,
              !.closeButton = IF conf.showCloseButton THEN FALSE ELSE @]

\* ------------------------------------------------------- chat and clean-up
\* _initChatListeners: one more set of handlers on the attached chat, and one
\* more system:info handler on the lobby
initChatListeners(w) ==
    IF isEmptyChat(w.chat) THEN w
    ELSE [w EXCEPT !.listeners[w.chat] = @ + 1, !.lobbyListeners = @ + 1]

clearChat(w) ==
    restorePreviousBotState(
        hideAllButtons([w EXCEPT !.chat = ChatEmpty, !.closeHandled = FALSE]))

\* ICF.Lobby.close() logs the user out of the lobby, which drops the cookie
clearLobby(w) == [w EXCEPT !.lobbyLogged = FALSE, !.cookie = FALSE, !.lobbyChats = {}]

\* ICF.Connection.getToken(): the session token ICF.Lobby.init was given
getToken(w) == w.lobbyLogged

\* variant: the token is stored whether or not the connection has one
savePreviousTokenUnchecked(w) ==
    IF conf.transcriptDownload THEN [w EXCEPT !.previousToken = TRUE] ELSE w

\* the head of clear(): with the transcript download configured, the
\* connection's token, if it has one, is kept under previousToken
savePreviousToken(w) ==
    IF conf.transcriptDownload /\ getToken(w)
    THEN [w EXCEPT !.previousToken = TRUE] ELSE w

\* variant: clear() also stamps lastClosedTime
clearStampingTime(w) ==
    [clearLobby(clearChat(savePreviousToken(w))) EXCEPT !.lastClosedTime = @ + 1]

clear(w) == clearLobby(clearChat(savePreviousToken(w)))

clearAndShowChatClosedMessage(w) == displayMessage(clear(w), "chat-closed")

\* chat.close() on chat c: the service closes the chat, and may answer with a
\* system:info notification
chatClose(w, c) ==
    IF c \in ChatIds /\ w.svc[c] = "open"
    THEN [w EXCEPT !.svc[c] = "closed", !.infoEvent = @ \cup {c}]
    ELSE w

\* _onChatClosed: persists lastClosedTime, re-emits chat:closed, arms the timer
onChatClosed(w, data) ==
    [trigger([w EXCEPT !.lastClosedTime = @ + 1], "chat:closed", data)
        EXCEPT !.timers = @ + 1, !.closeHandled = TRUE]

\* _onForeverAlone hands _onChatClosed an object of its own making
onForeverAlone(w) == onChatClosed(chatClose(showNoAgents(w), w.chat), "built")

\* the 5 s timer armed by _onChatClosed
onTimer(w) ==
    IF w.lobbyLogged
    THEN [clearAndShowChatClosedMessage(w) EXCEPT !.lastClosedTime = @ + 1]
    ELSE w

\* ----------------------------------------------------------------- flows
\* the promise chain of start() and of restore(): each link runs when the one
\* before it has resolved
\* variant: the chat is created before the user session is initialised
StartChainSwapped ==
    <<"init", "check", "createChat", "initUserSession", "getCurrentBotState",
      "showAllButtons", "searchAgent", "monitorUserActivity">>

StartChain ==
    <<"init", "check", "initUserSession", "createChat", "getCurrentBotState",
      "showAllButtons", "searchAgent", "monitorUserActivity">>

RestoreChain ==
    <<"init", "restoreChat", "setConnectedMode", "showAllButtons", "monitorUserActivity">>

Chain(k) == IF k = "start" THEN StartChain ELSE RestoreChain

\* the link that follows link s in the chain of a flow of kind k
NextLink(k, s) ==
    LET c == Chain(k)
        i == CHOOSE j \in 1..Len(c) : c[j] = s
    IN IF i = Len(c) THEN "done" ELSE c[i + 1]

InFlight ==
    {"init", "check", "initUserSession", "lobbyInit", "createChat", "getCurrentBotState",
     "showAllButtons", "searchAgent", "monitorUserActivity", "restoreChat",
     "setConnectedMode", "catch"}

\* flow f calls link s: searchAgent() reads this.chat when it is called
Enter(f, s, w) ==
    /\ pc' = [pc EXCEPT ![f] = s]
    /\ steps' = [steps EXCEPT ![f] = IF s = "done" THEN @ ELSE Append(@, s)]
    /\ target' = [target EXCEPT ![f] = IF s = "searchAgent" THEN w.chat ELSE @]

\* flow f's link rejected with reason r: control passes to the chain's catch
Reject(f, r) ==
    /\ pc' = [pc EXCEPT ![f] = "catch"]
    /\ err' = [err EXCEPT ![f] = r]
    /\ UNCHANGED <<steps, target>>

\* a then or catch callback is a microtask: once its promise has settled it runs
\* before the event loop delivers the next event
MicroLinks ==
    {"restoreChat", "getCurrentBotState", "showAllButtons", "setConnectedMode",
     "monitorUserActivity", "catch"}

Quiet == \A f \in Flows : pc[f] \notin MicroLinks

\* flows are taken in index order
FreeFlow(f) == pc[f] = "idle" /\ \A g \in Flows : g < f => pc[g] # "idle"

\* SDKLoader.load(): what the returned promise is right after the call
loadPromise ==
    IF isInit THEN "resolved"
    ELSE IF script = "loading" THEN "rejected"
    ELSE "pending"

\* SDKLoader.load() -> _loadAndInitSDK(): the script tag is inserted once; when
\* it is already there _initICF() runs at once
loadCall ==
    /\ script' = IF ~isInit /\ script = "none" THEN "loading" ELSE script
    /\ initCalls' = IF ~isInit /\ script = "loaded" THEN initCalls + 1 ELSE initCalls
    /\ UNCHANGED isInit

\* first link after init() in a flow of kind k
AfterInit(k) == NextLink(k, "init")

\* a flow of kind k begins: connecting mode, then init()
Begin(f, k) ==
    LET w == setConnectingMode(World) IN
    /\ kind' = [kind EXCEPT ![f] = k]
    /\ Commit(w)
    /\ loadCall
    /\ CASE loadPromise = "resolved" ->
              /\ pc' = [pc EXCEPT ![f] = AfterInit(k)]
              /\ steps' = [steps EXCEPT ![f] = <<"setConnectingMode", "init", AfterInit(k)>>]
              /\ UNCHANGED err
         [] loadPromise = "pending" ->
              /\ pc' = [pc EXCEPT ![f] = "init"]
              /\ steps' = [steps EXCEPT ![f] = <<"setConnectingMode", "init">>]
              /\ UNCHANGED err
         [] OTHER ->
              /\ pc' = [pc EXCEPT ![f] = "catch"]
              /\ steps' = [steps EXCEPT ![f] = <<"setConnectingMode", "init">>]
              /\ err' = [err EXCEPT ![f] = "ReferenceError"]
    /\ UNCHANGED target

\* onEscalateToAgent -> start(userData)
Start(f) ==
    /\ Quiet
    /\ FreeFlow(f)
    /\ IF ~isChatOpen(World)
       THEN Begin(f, "start")
       ELSE /\ pc' = [pc EXCEPT ![f] = "ignored"]
            /\ kind' = [kind EXCEPT ![f] = "start"]
            /\ UNCHANGED <<worldVars, loaderVars, steps, target, err>>
    /\ UNCHANGED <<conf, hostVars, msgVars, ready, found, avail>>

\* onReady -> _onReady(): restore() when the cookie says a chat is open
OnReady(f) ==
    /\ Quiet
    /\ ~ready
    /\ ready' = TRUE
    /\ IF isChatOpen(World)
       THEN FreeFlow(f) /\ Begin(f, "restore")
       ELSE f = 1 /\ UNCHANGED <<worldVars, loaderVars, kind, pc, steps, target, err>>
    /\ UNCHANGED <<conf, hostVars, msgVars, found, avail>>

\* --------------------------------------------------------------- SDK loader
\* the script tag's onload: _initICF() calls ICF.init()
ScriptLoaded ==
    /\ Quiet
    /\ script = "loading"
    /\ script' = "loaded"
    /\ initCalls' = initCalls + 1
    /\ UNCHANGED <<isInit, worldVars, conf, hostVars, msgVars, flowVars>>

\* the SDK, once initialised on a page that holds the cookie, is back in the
\* lobby session the cookie names and knows the user's chats
sessionRestored(w, logged) ==
    IF w.cookie
    THEN [w EXCEPT !.lobbyLogged = logged,
                   !.lobbyChats = {c \in ChatIds : w.svc[c] # "none"}]
    ELSE w

\* variant: icf-failed resolves the pending load() promises like icf-ready
settleLoadsAlwaysResolving(ok) ==
    /\ pc' = [f \in Flows |-> IF pc[f] # "init" THEN pc[f] ELSE AfterInit(kind[f])]
    /\ steps' = [f \in Flows |->
                IF pc[f] = "init" THEN Append(steps[f], AfterInit(kind[f])) ELSE steps[f]]
    /\ err' = [f \in Flows |-> IF pc[f] = "init" /\ ~ok THEN "icf-failed" ELSE err[f]]

\* icf-ready / icf-failed reach every load() promise still pending; icf-failed
\* is emitted without arguments, so the rejection carries no reason of its own
settleLoads(ok) ==
    /\ pc' = [f \in Flows |->
                IF pc[f] # "init" THEN pc[f]
                ELSE IF ok THEN AfterInit(kind[f]) ELSE "catch"]
    /\ steps' = [f \in Flows |->
                IF pc[f] = "init" /\ ok THEN Append(steps[f], AfterInit(kind[f]))
                ELSE steps[f]]
    /\ err' = [f \in Flows |-> IF pc[f] = "init" /\ ~ok THEN "icf-failed" ELSE err[f]]

\* _initICF: ICF.init() settles; outcome "ready": resolved and ICF.isInit,
\* "notInit": resolved while ICF.isInit is false, "failed": rejected
IcfInit(outcome, logged) ==
    /\ Quiet
    /\ initCalls > 0
    /\ initCalls' = initCalls - 1
    /\ UNCHANGED script
    /\ CASE outcome = "ready" ->
              /\ isInit' = TRUE
              /\ Commit(IF isInit THEN World ELSE sessionRestored(World, logged))
              /\ settleLoads(TRUE)
         [] outcome = "notInit" ->
              /\ ~isInit
              /\ logged
              /\ UNCHANGED <<isInit, worldVars, pc, steps, err>>
         [] OTHER ->
              /\ logged
              /\ settleLoads(FALSE)
              /\ UNCHANGED <<isInit, worldVars>>
    /\ UNCHANGED <<conf, hostVars, msgVars, ready, kind, target, found, avail>>

\* ------------------------------------------------------- links of start()
\* AvailabilityChecker.check(): resolves in every case, with agentsAvailable
\* false when the request fails or no agent is free
checkResponse(outcome) ==
    IF outcome = "available" THEN [agentsAvailable |-> TRUE, reason |-> "none"]
    ELSE [agentsAvailable |-> FALSE, reason |-> "no-agents"]

\* variant: check() rejects unless agents are available
checkSettlesByAvailability(outcome) ==
    IF outcome = "available" THEN "resolved" ELSE "rejected"

\* how check()'s promise settles for each outcome of _areAvailableAgents
checkSettles(outcome) == "resolved"

Check(f, outcome) ==
    /\ Quiet
    /\ pc[f] = "check"
    /\ avail' = [avail EXCEPT ![f] = outcome]
    /\ IF checkSettles(outcome) = "resolved"
       THEN Enter(f, NextLink(kind[f], "check"), World) /\ UNCHANGED err
       ELSE Reject(f, checkResponse(outcome).reason)
    /\ UNCHANGED <<worldVars, conf, hostVars, msgVars, loaderVars, ready, kind, found>>

\* initUserSession: POST /users settles
UsersPost(f, ok) ==
    /\ Quiet
    /\ pc[f] = "initUserSession"
    /\ IF ok
       THEN pc' = [pc EXCEPT ![f] = "lobbyInit"] /\ UNCHANGED <<steps, target, err>>
       ELSE Reject(f, "request-failed")
    /\ UNCHANGED <<worldVars, conf, hostVars, msgVars, loaderVars, ready, kind, found, avail>>

\* ICF.Lobby.init logs the user in: the SDK sets the cookie
lobbyInit(w) == [w EXCEPT !.lobbyLogged = TRUE, !.cookie = TRUE]

LobbyInit(f, ok) ==
    /\ Quiet
    /\ pc[f] = "lobbyInit"
    /\ IF ok
       THEN LET w == lobbyInit(World) IN
            Commit(w) /\ Enter(f, NextLink(kind[f], "initUserSession"), w) /\ UNCHANGED err
       ELSE Reject(f, "request-failed") /\ UNCHANGED worldVars
    /\ UNCHANGED <<conf, hostVars, msgVars, loaderVars, ready, kind, found, avail>>

Min(S) == CHOOSE x \in S : \A y \in S : x <= y

FreeChatIds(w) == {c \in ChatIds : w.svc[c] = "none"}
OpenChats(w) == {c \in ChatIds : w.svc[c] = "open"}

\* ICF.Chat.init(chatData) resolved: the service opened chat c
chatInitNew(w, c) == [w EXCEPT !.svc[c] = "open", !.lobbyChats = @ \cup {c}]

\* createChat's catch for "User already has a chat": the first chat of the
\* lobby, else the first chat the service lists for the user
existingChat(w) ==
    IF w.lobbyChats # {} THEN Min(w.lobbyChats) ELSE Min(OpenChats(w))

\* createChat's last then: keep the chat, listen to it, announce it
chatCreated(w, c) ==
    trigger(initChatListeners([w EXCEPT !.chat = c, !.lobbyChats = @ \cup {c},
                                        !.closeHandled = FALSE]),
            "chat:created", "wrapped")

\* createChat: outcome "created": Chat.init resolved with a new chat;
\* "userHasChat": it was rejected with that message and the existing chat was
\* re-initialised; "reinitFailed": that second Chat.init was rejected;
\* "error": any other rejection, which the inner catch swallows
CreateChat(f, outcome) ==
    /\ Quiet
    /\ pc[f] = "createChat"
    /\ CASE outcome = "created" ->
              /\ FreeChatIds(World) # {}
              /\ LET c == Min(FreeChatIds(World))
                     w == chatCreated(chatInitNew(World, c), c) IN
                 Commit(w) /\ Enter(f, NextLink(kind[f], "createChat"), w)
              /\ UNCHANGED err
         [] outcome = "userHasChat" ->
              /\ OpenChats(World) # {}
              /\ LET w == chatCreated(World, existingChat(World)) IN
                 Commit(w) /\ Enter(f, NextLink(kind[f], "createChat"), w)
              /\ UNCHANGED err
         [] outcome = "reinitFailed" ->
              /\ OpenChats(World) # {}
              /\ Reject(f, "request-failed")
              /\ UNCHANGED worldVars
         [] OTHER ->
              /\ Enter(f, NextLink(kind[f], "createChat"), World)
              /\ err' = [err EXCEPT ![f] = "chat-init-failed"]
              /\ UNCHANGED worldVars
    /\ avail' = [avail EXCEPT ![f] = "none"]
    /\ UNCHANGED <<conf, hostVars, msgVars, loaderVars, ready, kind, found>>

GetCurrentBotState(f, hasData) ==
    /\ pc[f] = "getCurrentBotState"
    /\ LET w == getCurrentBotState(World, hasData) IN
       Commit(w) /\ Enter(f, NextLink(kind[f], "getCurrentBotState"), w)
    /\ UNCHANGED <<conf, hostVars, msgVars, loaderVars, ready, kind, found, avail, err>>

\* showAllButtons; a bot action that throws rejects the link
ShowAllButtons(f, ok) ==
    /\ pc[f] = "showAllButtons"
    /\ IF ok
       THEN LET w == showAllButtons(World) IN
            Commit(w) /\ Enter(f, NextLink(kind[f], "showAllButtons"), w) /\ UNCHANGED err
       ELSE Reject(f, "bot-action-failed") /\ UNCHANGED worldVars
    /\ UNCHANGED <<conf, hostVars, msgVars, loaderVars, ready, kind, found, avail>>

\* variant: the two branches of the then after searchAgent() exchanged
onSearchResultSwapped(w, agent) ==
    setConnectedMode(IF agent THEN onForeverAlone(w) ELSE showWaitingForAgent(w))

\* the then after searchAgent(): no agent -> _onForeverAlone, else the
\* waiting message; then connected mode
onSearchResult(w, agent) ==
    setConnectedMode(IF agent THEN showWaitingForAgent(w) ELSE onForeverAlone(w))

\* searchAgent(): rejected at once when no chat was attached at the call;
\* else chat.searchAgent() settles with an agent, without one, or is rejected
SearchAgent(f, outcome) ==
    /\ Quiet
    /\ pc[f] = "searchAgent"
    /\ IF isEmptyChat(target[f])
       THEN /\ outcome = "rejected"
            /\ Reject(f, "undefined")
            /\ UNCHANGED <<worldVars, found>>
       ELSE IF outcome = "rejected"
       THEN /\ Reject(f, "request-failed")
            /\ UNCHANGED <<worldVars, found>>
       ELSE LET w == onSearchResult(World, outcome = "agent") IN
            /\ Commit(w)
            /\ found' = [found EXCEPT ![f] = outcome]
            /\ pc' = [pc EXCEPT ![f] = NextLink(kind[f], "searchAgent")]
            /\ steps' = [steps EXCEPT ![f] =
                            @ \o <<"setConnectedMode", NextLink(kind[f], "searchAgent")>>]
            /\ UNCHANGED <<target, err>>
    /\ UNCHANGED <<conf, hostVars, msgVars, loaderVars, ready, kind, avail>>

\* monitorUserActivity: the SDK watches the input for the attached chat
monitorUserActivity(w) == [w EXCEPT !.monitoring = chatIdOf(w.chat)]

MonitorUserActivity(f) ==
    /\ pc[f] = "monitorUserActivity"
    /\ LET w == monitorUserActivity(World) IN
       Commit(w) /\ Enter(f, NextLink(kind[f], "monitorUserActivity"), w)
    /\ UNCHANGED <<conf, hostVars, msgVars, loaderVars, ready, kind, found, avail, err>>

\* the catch that ends start(): connected mode and console.error
startCatch(w) == [setConnectedMode(w) EXCEPT !.errors = @ + 1]

\* the catch that ends restore(): console.log only
restoreCatch(w) == [w EXCEPT !.errors = @ + 1]

Catch(f) ==
    /\ pc[f] = "catch"
    /\ Commit(IF kind[f] = "start" THEN startCatch(World) ELSE restoreCatch(World))
    /\ pc' = [pc EXCEPT ![f] = "failed"]
    /\ avail' = [avail EXCEPT ![f] = "none"]
    /\ UNCHANGED <<conf, hostVars, msgVars, loaderVars, ready, kind, steps, target, found, err>>

\* ------------------------------------------------------ links of restore()
\* a missed message as restoreChat displays it
MissedMessage == [type |-> "answer", message |-> "text", media |-> FALSE,
                  externalId |-> "none"]

\* _readMissedMessages with the lobby logged in, and the forEach that displays
\* what it returns: the unread messages are marked read and shown as answers
readMissedMessages(w) ==
    [w EXCEPT !.transcript = @ \o [i \in 1..w.unread |-> MissedMessage],
              !.unread = 0]

\* restoreChat: reattach to the first chat of the lobby unless it is closed;
\* _readMissedMessages returns nothing when the lobby is not logged in, and
\* the forEach on it then throws
restoreChat(w) ==
    IF w.lobbyChats = {} THEN w
    ELSE LET c == Min(w.lobbyChats)
             a == initChatListeners([w EXCEPT !.chat = c, !.closeHandled = FALSE]) IN
         IF w.svc[c] = "closed" THEN w
         ELSE IF w.lobbyLogged THEN readMissedMessages(a) ELSE a

restoreChatThrows(w) ==
    /\ w.lobbyChats # {}
    /\ w.svc[Min(w.lobbyChats)] # "closed"
    /\ ~w.lobbyLogged

RestoreChat(f) ==
    /\ pc[f] = "restoreChat"
    /\ LET w == restoreChat(World) IN
       /\ Commit(w)
       /\ IF restoreChatThrows(World)
          THEN Reject(f, "TypeError")
          ELSE Enter(f, NextLink(kind[f], "restoreChat"), w) /\ UNCHANGED err
    /\ UNCHANGED <<conf, hostVars, msgVars, loaderVars, ready, kind, found, avail>>

SetConnectedMode(f) ==
    /\ pc[f] = "setConnectedMode"
    /\ LET w == setConnectedMode(World) IN
       Commit(w) /\ Enter(f, NextLink(kind[f], "setConnectedMode"), w)
    /\ UNCHANGED <<conf, hostVars, msgVars, loaderVars, ready, kind, found, avail, err>>

\* ------------------------------------------------- service events and timer
\* an agent (or the service) closes chat c; chat:closed goes out to the chat,
\* and a system:info notification may follow
AgentCloses(c) ==
    /\ Quiet
    /\ svc[c] = "open"
    /\ Commit([World EXCEPT !.svc[c] = "closed", !.closedEvent = @ \cup {c},
                            !.infoEvent = @ \cup {c}])
    /\ UNCHANGED <<conf, hostVars, msgVars, loaderVars, flowVars>>

RECURSIVE onChatClosedTimes(_, _)
\* chat:closed reaches every handler set registered on the chat
onChatClosedTimes(w, n) ==
    IF n = 0 THEN w ELSE onChatClosedTimes(onChatClosed(w, "delivered"), n - 1)

ChatClosedEvent(c) ==
    /\ Quiet
    /\ c \in closedEvent
    /\ Commit(onChatClosedTimes([World EXCEPT !.closedEvent = @ \ {c}], listeners[c]))
    /\ UNCHANGED <<conf, hostVars, msgVars, loaderVars, flowVars>>

TimerFires ==
    /\ Quiet
    /\ timers > 0
    /\ Commit(onTimer([World EXCEPT !.timers = @ - 1]))
    /\ UNCHANGED <<conf, hostVars, msgVars, loaderVars, flowVars>>

\* _showSurvey, with the survey url configured: the survey is stored as
\* pending and shown in the custom conversation window
showSurvey(w) == [w EXCEPT !.survey = "pending", !.surveyWindow = TRUE]

\* _onSystemInfo: ticket:created with data.data when it holds a ticket id,
\* the clean-up, the download-transcript message and the survey when they
\* are configured
onSystemInfo(w, hasTicket) ==
    LET t == IF hasTicket THEN trigger(w, "ticket:created", "part") ELSE w
        c == clearAndShowChatClosedMessage(t)
        d == IF conf.transcriptDownload THEN displayMessage(c, "download-transcript")
             ELSE c
        l == [d EXCEPT !.lastClosedTime = @ + 1] IN
    IF conf.surveys THEN showSurvey(l) ELSE l

RECURSIVE onSystemInfoTimes(_, _, _)
\* system:info reaches every handler added to the lobby
onSystemInfoTimes(w, hasTicket, n) ==
    IF n = 0 THEN w ELSE onSystemInfoTimes(onSystemInfo(w, hasTicket), hasTicket, n - 1)

SystemInfoEvent(c, hasTicket) ==
    /\ Quiet
    /\ c \in infoEvent
    /\ Commit(onSystemInfoTimes([World EXCEPT !.infoEvent = @ \ {c}], hasTicket,
                                lobbyListeners))
    /\ UNCHANGED <<conf, hostVars, msgVars, loaderVars, flowVars>>

\* closeChat(): close() is issued on the attached chat when the lobby knows it
closeChatIssued(w) ==
    IF w.chat \in w.lobbyChats THEN [w EXCEPT !.closing = @ \cup {w.chat}] ELSE w

\* the options a system message may offer: the download of a transcript
\* (value type ticketData), yes to the exit-conversation question, any other
OptionKinds == {"ticketData", "closeYes", "other"}

\* _getPreviousToken: the stored token, looked up only when the connection has
\* no token of its own
getPreviousToken(w) == IF ~getToken(w) /\ w.previousToken THEN "previous" ELSE "none"

\* variant: the exit-conversation answer is acted on whether or not a chat is open
selectSystemMessageOptionUnguarded(w, opt) ==
    IF conf.transcriptDownload /\ opt = "ticketData" THEN "download"
    ELSE IF opt = "closeYes"
    THEN IF w.chat = ChatUndefined THEN "raised"
         ELSE IF w.chat \in w.lobbyChats THEN "close" ELSE "rejected"
    ELSE "next"

\* _onSelectSystemMessageOption: the transcript download; or, with a chat open
\* and yes to exit-conversation, closeChat(), which reads this.chat.id (a
\* TypeError while this.chat is undefined) and is rejected when the lobby does
\* not hold the chat; or next(optionData)
selectSystemMessageOption(w, opt) ==
    IF conf.transcriptDownload /\ opt = "ticketData" THEN "download"
    ELSE IF isChatOpen(w) /\ opt = "closeYes"
    THEN IF w.chat = ChatUndefined THEN "raised"
         ELSE IF w.chat \in w.lobbyChats THEN "close" ELSE "rejected"
    ELSE "next"

\* onSelectSystemMessageOption -> _onSelectSystemMessageOption; the
\* exit-conversation question is answered once for a chat, while the service
\* has it open
SelectSystemMessageOption(opt) ==
    /\ Quiet
    /\ opt = "closeYes" /\ chat \in ChatIds => svc[chat] = "open" /\ chat \notin closing
    /\ LET r == selectSystemMessageOption(World, opt) IN
       /\ lastOption' = [kind |-> opt, result |-> r,
                         token |-> IF r = "download" THEN getPreviousToken(World)
                                   ELSE "none",
                         seq |-> 1 - lastOption.seq]
       /\ Commit(IF r = "close" THEN closeChatIssued(World) ELSE World)
    /\ UNCHANGED <<conf, lastActivity, typing, loads, history, filterTime, parsed, setup,
                   msgVars, loaderVars, flowVars>>

\* the close() asked for by the user settles: _onChatClosed runs once it resolves
CloseSettles(c, ok) ==
    /\ Quiet
    /\ c \in closing
    /\ LET w == [World EXCEPT !.closing = @ \ {c}] IN
       Commit(IF ok THEN onChatClosed(chatClose(w, c), "built") ELSE w)
    /\ UNCHANGED <<conf, hostVars, msgVars, loaderVars, flowVars>>

\* ------------------------------------------------- chat and window events
ActivityTypes == {"writing", "not-writing", "other"}

\* _onUserActivity: the user is looked up among this.chat.users; its name is
\* read for the typing indicator, which raises a TypeError when no user of
\* the chat has the event's userId
onUserActivity(known, type) ==
    IF type = "other" THEN "none"
    ELSE IF ~known THEN "raised"
    ELSE IF type = "writing" THEN "shown" ELSE "hidden"

\* user:activity on the attached chat -> _onUserActivity
UserActivity(known, type) ==
    /\ Quiet
    /\ ~isEmptyChat(chat) /\ listeners[chat] > 0
    /\ LET r == onUserActivity(known, type) IN
       /\ lastActivity' = [known |-> known, type |-> type, result |-> r,
                           seq |-> 1 - lastActivity.seq]
       /\ typing' = CASE r = "shown" -> TRUE [] r = "hidden" -> FALSE [] OTHER -> typing
    /\ UNCHANGED <<worldVars, conf, lastOption, loads, history, filterTime, parsed, setup,
                   msgVars, loaderVars, flowVars>>

\* variant: the answer to the survey closes the window and stores nothing
onWindowMessageForgetting(w) == [w EXCEPT !.surveyWindow = FALSE]

\* _onWindowMessage for inbenta.survey.successful_answer: the stored survey is
\* no longer pending and the survey window is closed
onWindowMessage(w) == [w EXCEPT !.survey = "answered", !.surveyWindow = FALSE]

\* the survey in the window posts its successful answer
WindowMessage ==
    /\ Quiet
    /\ surveyWindow
    /\ Commit(onWindowMessage(World))
    /\ UNCHANGED <<conf, hostVars, msgVars, loaderVars, flowVars>>

\* the page is loaded again and a new adapter is constructed: what the page
\* and the old adapter held is gone, the cookie, the storage and the service
\* stay; the constructor shows the stored survey if it is pending
Construct ==
    /\ Quiet
    /\ loads < MaxLoads
    /\ loads' = loads + 1
    /\ Commit([World EXCEPT
                 !.inputEnabled = TRUE, !.uploadButton = FALSE, !.closeButton = FALSE,
                 !.shown = [k \in SystemMessages |-> 0],
                 !.chat = ChatUndefined, !.botState = "unset", !.monitoring = 0,
                 !.timers = 0, !.closeHandled = FALSE,
                 !.lobbyLogged = FALSE, !.lobbyChats = {},
                 !.listeners = [c \in ChatIds |-> 0], !.lobbyListeners = 0,
                 !.closedEvent = {}, !.infoEvent = {}, !.closing = {},
                 !.transcript = <<>>,
                 !.surveyWindow = (survey = "pending")])
    /\ script' = "none" /\ isInit' = FALSE /\ initCalls' = 0
    /\ ready' = FALSE
    /\ kind' = [f \in Flows |-> "none"]
    /\ pc' = [f \in Flows |-> "idle"]
    /\ steps' = [f \in Flows |-> <<>>]
    /\ target' = [f \in Flows |-> ChatUndefined]
    /\ found' = [f \in Flows |-> "none"]
    /\ avail' = [f \in Flows |-> "none"]
    /\ err' = [f \in Flows |-> "none"]
    /\ typing' = FALSE
    /\ UNCHANGED <<conf, lastOption, lastActivity, history, filterTime, parsed, setup,
                   msgVars>>

\* ------------------------------------------- configuration and construction
\* the subscriptions of the bot the adapter uses, in the order
\* subscribeToBotEvents calls them
BotSubscriptions ==
    <<"onEscalateToAgent", "onReady", "onSendMessage", "onDownloadMedia", "onUploadMedia",
      "onSelectSystemMessageOption">>
SubscriptionNames == {BotSubscriptions[i] : i \in DOMAIN BotSubscriptions}

\* the bot instances handed to the constructor: an object without
\* subscriptions, and bots with all the subscriptions or all but one
BotInstances == {{}} \cup {SubscriptionNames \ m : m \in {{}} \cup {{n} : n \in SubscriptionNames}}

\* a configuration object by what validate() looks at: a plain object, appId,
\* region and server non-empty strings, room a function
ConfValues == [plain : BOOLEAN, appId : BOOLEAN, region : BOOLEAN, server : BOOLEAN,
               room : BOOLEAN]

\* let _conf = {}
EmptyConf == [plain |-> TRUE, appId |-> FALSE, region |-> FALSE, server |-> FALSE,
              room |-> FALSE]
\* nothing configured and no adapter constructed yet
NoSetup ==
    [stored |-> EmptyConf,
     call |-> [op |-> "none", bot |-> {}, values |-> EmptyConf, result |-> "none",
               subscribed |-> {}, seq |-> 0]]

\* Conf.validate(conf)
validate(c) == c.plain /\ c.appId /\ (c.region \/ c.server) /\ c.room

\* Conf.set(values): validate() throws before anything is stored; then
\* assign(_conf, values) adds the keys of values to the stored ones
confSet(stored, c) ==
    IF validate(c)
    THEN [plain |-> TRUE, appId |-> stored.appId \/ c.appId,
          region |-> stored.region \/ c.region, server |-> stored.server \/ c.server,
          room |-> stored.room \/ c.room]
    ELSE stored

\* configure(conf) -> Conf.set(conf)
Configure(c) ==
    /\ setup' = [stored |-> confSet(setup.stored, c),
                 call |-> [op |-> "configure", bot |-> {}, values |-> c,
                           result |-> IF validate(c) THEN "set" ELSE "thrown",
                           subscribed |-> {}, seq |-> 1 - setup.call.seq]]
    /\ UNCHANGED <<worldVars, conf, lastOption, lastActivity, typing, loads, history,
                   filterTime, parsed, msgVars, loaderVars, flowVars>>

\* _checkIsBotInstance: the five subscriptions it looks for are functions
checkIsBotInstance(bot) == SubscriptionNames \ {"onSelectSystemMessageOption"} \subseteq bot

\* subscribeToBotEvents: the subscriptions registered, in order, up to the
\* first one the bot does not have, whose call throws a TypeError
subscribeToBotEvents(bot) ==
    {BotSubscriptions[i] : i \in {j \in DOMAIN BotSubscriptions :
                                    \A h \in 1..j : BotSubscriptions[h] \in bot}}

\* new HCAdapter(botInstance): throws when the check fails, then subscribes
constructor(bot) ==
    IF ~checkIsBotInstance(bot) THEN [result |-> "thrown", subscribed |-> {}]
    ELSE [result |-> IF SubscriptionNames \subseteq bot THEN "built" ELSE "thrown",
          subscribed |-> subscribeToBotEvents(bot)]

\* new HCAdapter(botInstance, values): the constructor has one parameter, a
\* second argument is not looked at
NewAdapter(bot, c) ==
    /\ setup' = [stored |-> setup.stored,
                 call |-> [op |-> "construct", bot |-> bot, values |-> c,
                           result |-> constructor(bot).result,
                           subscribed |-> constructor(bot).subscribed,
                           seq |-> 1 - setup.call.seq]]
    /\ UNCHANGED <<worldVars, conf, lastOption, lastActivity, typing, loads, history,
                   filterTime, parsed, msgVars, loaderVars, flowVars>>

\* ------------------------------------------------------- bot history
\* an entry of the bot's conversation transcript: its time, its type, the
\* recorded user and custom.hyperchatSenderId ("none" when not attached)
BotMessageTypes == {"answer", "polarQuestion", "extendedContentsAnswer", "download", "system"}
BotMessages ==
    [datetime : 1..MaxTime, type : BotMessageTypes, user : {"guest", "agent"},
     hyperchatSenderId : {"none", "hc"}]

\* variant: entries at the cutoff time are kept
filterHistoryInclusive(messages, ft) ==
    IF ft # 0 THEN SelectSeq(messages, LAMBDA b : b.datetime >= ft) ELSE messages

\* messages.filter(botMessage => botMessage.datetime > filterTime), applied
\* only when filterTime is truthy: 0 stands for no stored lastClosedTime
filterHistory(messages, ft) ==
    IF ft # 0 THEN SelectSeq(messages, LAMBDA b : b.datetime > ft) ELSE messages

\* variant: the sender is the recorded user, the current user for guest
senderOfRecorded(b) ==
    IF b.user = "guest" THEN "me" ELSE b.user

\* parsedMsg.sender: assistant for a system entry; else the attached
\* hyperchatSenderId; else ICF.Connection.me().id for guest; else the user
senderOf(b) ==
    IF b.type = "system" THEN "assistant"
    ELSE IF b.hyperchatSenderId # "none" THEN b.hyperchatSenderId
    ELSE IF b.user = "guest" THEN "me"
    ELSE b.user

\* the message in the chat format: questions and extended answers become a
\* JSON object with their options, a download its name or url
parseBotMessage(b) ==
    [created |-> b.datetime,
     type |-> IF b.type \in {"polarQuestion", "extendedContentsAnswer"}
              THEN "object" ELSE "text",
     message |-> CASE b.type = "polarQuestion" -> "messageAndOptions"
                   [] b.type = "extendedContentsAnswer" -> "messageAndLabels"
                   [] b.type = "download" -> "nameOrUrl"
                   [] OTHER -> "message",
     sender |-> senderOf(b)]

\* _parseBotHistory(messages, filterTime)
parseBotHistory(messages, ft) ==
    LET kept == filterHistory(messages, ft) IN
    [i \in 1..Len(kept) |-> parseBotMessage(kept[i])]

\* _getBotConversation: the transcript is parsed with the stored lastClosedTime
ParseHistory ==
    /\ parsed.calls < MaxParses
    /\ parsed' = [calls |-> parsed.calls + 1, out |-> parseBotHistory(history, filterTime)]
    /\ UNCHANGED <<worldVars, conf, lastOption, lastActivity, typing, loads, history, setup,
                   filterTime, msgVars, loaderVars, flowVars>>

\* the latest time on record: of the transcript's entries and of the stored
\* lastClosedTime
Clock ==
    LET times == {filterTime} \cup {history[i].datetime : i \in 1..Len(history)} IN
    CHOOSE t \in times : \A u \in times : u <= t

\* the bot adds an entry to its conversation transcript, at the time it is
BotLogs(b) ==
    /\ Len(history) < MaxHist
    /\ b.datetime >= Clock
    /\ history' = Append(history, b)
    /\ UNCHANGED <<worldVars, conf, lastOption, lastActivity, typing, loads, filterTime,
                   parsed, setup, msgVars, loaderVars, flowVars>>

\* storage.setItem('lastClosedTime', Helpers.getUnixTime()), as close handling,
\* the timer and system:info do it, at time t
ClosureStamps(t) ==
    /\ t >= Clock
    /\ filterTime' = t
    /\ UNCHANGED <<worldVars, conf, lastOption, lastActivity, typing, loads, history,
                   parsed, setup, msgVars, loaderVars, flowVars>>

\* variant: the transcript is parsed without the stored lastClosedTime
getBotConversationUnfiltered(messages, ft) ==
    IF messages = <<>> THEN <<>> ELSE parseBotHistory(messages, 0)

\* _getBotConversation: nothing for an empty transcript, else the transcript
\* parsed with the lastClosedTime read from the storage
getBotConversation(messages, ft) ==
    IF messages = <<>> THEN <<>> ELSE parseBotHistory(messages, ft)

\* getChatData at chat creation: data.history is the bot conversation when
\* importBotHistory is true, and is left out otherwise
GetChatData(importBotHistory) ==
    /\ parsed.calls < MaxParses
    /\ parsed' = [calls |-> parsed.calls + 1,
                  out |-> IF importBotHistory THEN getBotConversation(history, filterTime)
                          ELSE <<>>]
    /\ UNCHANGED <<worldVars, conf, lastOption, lastActivity, typing, loads, history,
                   filterTime, setup, msgVars, loaderVars, flowVars>>

\* ---------------------------------------------------------- user messages
\* bot.actions.updateMessage({ id, action }): the bot shows the tick it is given
setMessageStatus(st, m, action) == [st EXCEPT ![m] = action]

setMessagePending(st, m) == setMessageStatus(st, m, "WAITING_TICK")

setMessageError(st, m) == setMessageStatus(st, m, "ERROR_TICK")

setMessageCheck(st, m) == setMessageStatus(st, m, "SINGLE_TICK")

\* variant: the double tick is set on the message by its bot id, whatever
\* external id the bot holds for it
setMessageDoubleCheckById(st, ext, m) == setMessageStatus(st, m, "DOUBLE_TICK")

\* _setMessageDoubleCheck -> _updateMessageByExternalId: the bot looks the
\* message up by the service's message id, which it holds only once the final
\* external id has been set
setMessageDoubleCheck(st, ext, m) ==
    IF ext[m] = "message" THEN setMessageStatus(st, m, "DOUBLE_TICK") ELSE st

\* window.ICF exists once the SDK script has run
icfDefined == script = "loaded"

\* variant: the message is sent without looking at the chat handle
sendMessageUnchecked(empty, hasId) ==
    IF ~hasId THEN "ignored" ELSE "sent"

\* _sendMessage(message): throws with no chat attached, returns at once for a
\* message the bot gave no id, otherwise calls chat.sendMessage
sendMessage(empty, hasId) ==
    IF empty THEN "thrown" ELSE IF ~hasId THEN "ignored" ELSE "sent"

\* variant: every message goes to the send path, whether a chat is open or not
onUserMessageAlwaysSending(open, empty, hasId) == sendMessage(empty, hasId)

\* _onUserMessage(message, next): next(message) with no chat open, the send
\* path with one open
onUserMessage(open, empty, hasId) ==
    IF ~open THEN "next" ELSE sendMessage(empty, hasId)

\* onSendMessage -> _onUserMessage(message, next): hasId says whether the bot
\* gave the message an id
UserMessage(m, hasId) ==
    /\ Quiet
    /\ handled[m] = "none"
    /\ LET h == onUserMessage(isChatOpen(World), isEmptyChat(chat), hasId) IN
       /\ handled' = [handled EXCEPT ![m] = h]
       /\ IF h = "sent"
          THEN /\ sends' = [sends EXCEPT ![m] = @ + 1]
               /\ callback' = [callback EXCEPT ![m] = TRUE]
               /\ promise' = [promise EXCEPT ![m] = "pending"]
          ELSE UNCHANGED <<sends, callback, promise>>
    /\ UNCHANGED <<status, externalId, lastEvent, worldVars, conf, hostVars, loaderVars, flowVars>>

\* the SDK calls onMessageCreateCallback(eventId, ...)
CreateCallback(m) ==
    /\ Quiet
    /\ callback[m]
    /\ callback' = [callback EXCEPT ![m] = FALSE]
    /\ status' = setMessagePending(status, m)
    /\ externalId' = [externalId EXCEPT ![m] = "event"]
    /\ UNCHANGED <<promise, handled, sends, lastEvent, worldVars, conf, hostVars, loaderVars,
                   flowVars>>

\* variant: the catch of chat.sendMessage() sends the message once more
sendCatchRetrying(st, sn, m) ==
    [status |-> setMessageError(st, m), sends |-> [sn EXCEPT ![m] = @ + 1]]

\* the catch of chat.sendMessage(): the error tick, and nothing else
sendCatch(st, sn, m) == [status |-> setMessageError(st, m), sends |-> sn]

\* chat.sendMessage() settles: the then sets the final external id on the
\* message found by its event id and shows the single tick; the catch shows
\* the error tick
SendSettles(m, ok) ==
    /\ Quiet
    /\ handled[m] = "sent"
    /\ promise[m] = "pending"
    /\ promise' = [promise EXCEPT ![m] = IF ok THEN "resolved" ELSE "rejected"]
    /\ IF ok
       THEN status' = setMessageCheck(status, m) /\ sends' = sends
       ELSE LET r == sendCatch(status, sends, m) IN
            status' = r.status /\ sends' = r.sends
    /\ externalId' = [externalId EXCEPT ![m] = IF ok /\ @ = "event" THEN "message" ELSE @]
    /\ UNCHANGED <<callback, handled, lastEvent, worldVars, conf, hostVars, loaderVars, flowVars>>

\* onUploadMedia -> _onUploadMedia(media): pending tick, then chat.sendMedia(),
\* which throws when no chat is attached
UploadMedia(m) ==
    /\ Quiet
    /\ handled[m] = "none"
    /\ IF ~icfDefined
       THEN /\ handled' = [handled EXCEPT ![m] = "uploadIgnored"]
            /\ UNCHANGED <<status, promise>>
       ELSE /\ status' = setMessagePending(status, m)
            /\ IF isEmptyChat(chat)
               THEN handled' = [handled EXCEPT ![m] = "uploadThrown"] /\ UNCHANGED promise
               ELSE /\ handled' = [handled EXCEPT ![m] = "uploaded"]
                    /\ promise' = [promise EXCEPT ![m] = "pending"]
    /\ UNCHANGED <<externalId, callback, sends, lastEvent, worldVars, conf, hostVars, loaderVars,
                   flowVars>>

\* what chat.sendMedia() may settle with: success, the 403 'File type is not
\* allowed' rejection, any other rejection
UploadOutcomes == {"ok", "notAllowed", "error"}

\* variant: the catch of chat.sendMedia() shows no system message
uploadCatchSilent(st, w, m, outcome) ==
    [status |-> setMessageError(st, m), world |-> w]

\* the catch of chat.sendMedia(): the error tick, and for a file type that is
\* not allowed the system message as well
uploadCatch(st, w, m, outcome) ==
    [status |-> setMessageError(st, m),
     world |-> IF outcome = "notAllowed"
               THEN displayMessage(w, "file-extension-not-allowed") ELSE w]

\* chat.sendMedia() settles: single tick and the media id as external id, or
\* the catch
UploadSettles(m, outcome) ==
    /\ Quiet
    /\ handled[m] = "uploaded"
    /\ promise[m] = "pending"
    /\ promise' = [promise EXCEPT ![m] = CASE outcome = "ok" -> "resolved"
                                            [] outcome = "notAllowed" -> "notAllowed"
                                            [] OTHER -> "rejected"]
    /\ IF outcome = "ok"
       THEN /\ status' = setMessageCheck(status, m)
            /\ externalId' = [externalId EXCEPT ![m] = "message"]
            /\ UNCHANGED worldVars
       ELSE LET r == uploadCatch(status, World, m, outcome) IN
            /\ status' = r.status
            /\ Commit(r.world)
            /\ UNCHANGED externalId
    /\ UNCHANGED <<callback, handled, sends, lastEvent, conf, hostVars, loaderVars, flowVars>>

\* senders of a message:received event: this user (from another tab), an agent
\* with a string id, a sender whose id is not a string
Senders == {"me", "agent", "nonString"}

isString(sender) == sender # "nonString"

\* the message field of an incoming message: text, or a media descriptor
payload(type) == IF type = "media" THEN "descriptor" ELSE "text"

\* variant: the message of any other sender is displayed, string id or not
onMessageReceivedUnfiltered(tr, sender, type) ==
    IF sender = "me"
    THEN Append(tr, [type |-> "user", message |-> payload(type), media |-> FALSE,
                     externalId |-> "message"])
    ELSE Append(tr, [type |-> "answer",
                     message |-> IF type = "media" THEN "void" ELSE payload(type),
                     media |-> (type = "media"), externalId |-> "none"])

\* _onMessageReceived: a message of this user is displayed as a user message
\* and given the service's message id as external id; another sender's is
\* displayed as an answer, if the sender id is a string
onMessageReceived(tr, sender, type) ==
    IF sender = "me"
    THEN Append(tr, [type |-> "user", message |-> payload(type), media |-> FALSE,
                     externalId |-> "message"])
    ELSE IF isString(sender)
    THEN Append(tr, [type |-> "answer",
                     message |-> IF type = "media" THEN "void" ELSE payload(type),
                     media |-> (type = "media"), externalId |-> "none"])
    ELSE tr

\* message:received on the attached chat -> _onMessageReceived
MessageReceived(sender, type) ==
    /\ Quiet
    /\ ~isEmptyChat(chat) /\ listeners[chat] > 0
    /\ Len(transcript) < MaxShown
    /\ lastEvent' = [event |-> "message:received", sender |-> sender, type |-> type,
                     msg |-> 0, seq |-> 1 - lastEvent.seq]
    /\ Commit([World EXCEPT !.transcript = onMessageReceived(@, sender, type)])
    /\ UNCHANGED <<status, externalId, callback, promise, handled, sends, conf, hostVars,
                   loaderVars, flowVars>>

\* message:read on the attached chat -> _onMessageRead: the event is about
\* message m of this user that was handed to the service, or (mine false)
\* about a message of another sender
MessageRead(m, mine) ==
    /\ Quiet
    /\ ~isEmptyChat(chat) /\ listeners[chat] > 0
    /\ mine => handled[m] \in {"sent", "uploaded"}
    /\ lastEvent' = [event |-> "message:read", sender |-> IF mine THEN "me" ELSE "agent",
                     type |-> "text", msg |-> m, seq |-> 1 - lastEvent.seq]
    /\ status' = IF mine THEN setMessageDoubleCheck(status, externalId, m) ELSE status
    /\ UNCHANGED <<externalId, callback, promise, handled, sends, worldVars, conf, hostVars,
                   loaderVars, flowVars>>

NoEvent == [event |-> "none", sender |-> "none", type |-> "none", msg |-> 0, seq |-> 0]

NoMessages ==
    /\ sends = [m \in Msgs |-> 0]
    /\ lastEvent = NoEvent
    /\ status = [m \in Msgs |-> "none"]
    /\ externalId = [m \in Msgs |-> "none"]
    /\ callback = [m \in Msgs |-> FALSE]
    /\ promise = [m \in Msgs |-> "none"]
    /\ handled = [m \in Msgs |-> "none"]

NoOption == [kind |-> "none", result |-> "none", token |-> "none", seq |-> 0]

NoActivity == [known |-> FALSE, type |-> "none", result |-> "none", seq |-> 0]

NoHostEvents ==
    /\ setup = NoSetup
    /\ lastOption = NoOption
    /\ lastActivity = NoActivity
    /\ typing = FALSE
    /\ loads = 0

NoParse == [calls |-> 0, out |-> <<>>]
NoHistory == history = <<>> /\ filterTime = 0 /\ parsed = NoParse

\* ------------------------------------------------------------ specification
ConfSet ==
    {[fileUploadsActive |-> b, showCloseButton |-> b, transcriptDownload |-> b,
      surveys |-> b] : b \in BOOLEAN}

Init ==
    /\ cookie \in BOOLEAN
    /\ inputEnabled = TRUE
    /\ uploadButton = FALSE
    /\ closeButton \in BOOLEAN
    /\ shown = [k \in SystemMessages |-> 0]
    /\ conf \in ConfSet
    /\ chat = ChatUndefined
    /\ botState = "unset"
    /\ monitoring = 0
    /\ emitted = [e \in PublicEvents |-> 0]
    /\ errors = 0
    /\ timers = 0
    /\ lastClosedTime = 0
    /\ closeHandled = FALSE
    /\ script = "none"
    /\ isInit = FALSE
    /\ initCalls = 0
    /\ lobbyLogged = FALSE
    /\ lobbyChats = {}
    /\ svc \in [ChatIds -> {"none", "open", "closed"}]
    /\ \A c \in ChatIds : svc[c] # "none" => cookie /\ c = 1
    /\ listeners = [c \in ChatIds |-> 0]
    /\ closedEvent = {}
    /\ infoEvent = {} /\ lobbyListeners = 0 /\ closing = {}
    /\ eventData = [e \in PublicEvents |-> "none"]
    /\ previousToken = FALSE /\ survey = "none" /\ surveyWindow = FALSE
    /\ unread \in 0..MaxUnread
    /\ unread > 0 => svc[1] = "open"
    /\ transcript = <<>>
    /\ ready = FALSE
    /\ kind = [f \in Flows |-> "none"]
    /\ pc = [f \in Flows |-> "idle"]
    /\ steps = [f \in Flows |-> <<>>]
    /\ target = [f \in Flows |-> ChatUndefined]
    /\ found = [f \in Flows |-> "none"]
    /\ avail = [f \in Flows |-> "none"]
    /\ err = [f \in Flows |-> "none"]
    /\ NoMessages
    /\ NoHostEvents /\ NoHistory

Next ==
    \/ \E f \in Flows : OnReady(f)
    \/ \E f \in Flows : ready /\ Start(f)
    \/ ScriptLoaded
    \/ \E o \in {"ready", "notInit", "failed"}, l \in BOOLEAN : IcfInit(o, l)
    \/ \E f \in Flows, o \in {"available", "unavailable", "error"} : Check(f, o)
    \/ \E f \in Flows, ok \in BOOLEAN : UsersPost(f, ok)
    \/ \E f \in Flows, ok \in BOOLEAN : LobbyInit(f, ok)
    \/ \E f \in Flows, o \in {"created", "userHasChat", "reinitFailed", "error"} :
          CreateChat(f, o)
    \/ \E f \in Flows, d \in BOOLEAN : GetCurrentBotState(f, d)
    \/ \E f \in Flows, ok \in BOOLEAN : ShowAllButtons(f, ok)
    \/ \E f \in Flows, o \in {"agent", "noAgent", "rejected"} : SearchAgent(f, o)
    \/ \E f \in Flows : MonitorUserActivity(f)
    \/ \E f \in Flows : Catch(f)
    \/ \E f \in Flows : RestoreChat(f)
    \/ \E f \in Flows : SetConnectedMode(f)
    \/ \E c \in ChatIds : AgentCloses(c)
    \/ \E c \in ChatIds : ChatClosedEvent(c)
    \/ TimerFires

Spec == Init /\ [][Next]_vars

\* no start() or restore() is in progress
Settled == \A f \in Flows : pc[f] \notin InFlight

\* sessions one after the other, closed by the agent and cleared by the timer
\* or by system:info:
\* the user escalates only when no start() or restore() is in progress
NextClose ==
    \/ \E f \in Flows : OnReady(f)
    \/ \E f \in Flows : ready /\ Settled /\ Start(f)
    \/ ScriptLoaded
    \/ \E o \in {"ready", "notInit", "failed"}, l \in BOOLEAN : IcfInit(o, l)
    \/ \E f \in Flows, o \in {"available", "unavailable", "error"} : Check(f, o)
    \/ \E f \in Flows, ok \in BOOLEAN : UsersPost(f, ok)
    \/ \E f \in Flows, ok \in BOOLEAN : LobbyInit(f, ok)
    \/ \E f \in Flows, o \in {"created", "userHasChat", "reinitFailed", "error"} :
          CreateChat(f, o)
    \/ \E f \in Flows, d \in BOOLEAN : GetCurrentBotState(f, d)
    \/ \E f \in Flows, ok \in BOOLEAN : ShowAllButtons(f, ok)
    \/ \E f \in Flows, o \in {"agent", "noAgent", "rejected"} : SearchAgent(f, o)
    \/ \E f \in Flows : MonitorUserActivity(f)
    \/ \E f \in Flows : Catch(f)
    \/ \E f \in Flows : RestoreChat(f)
    \/ \E f \in Flows : SetConnectedMode(f)
    \/ \E c \in ChatIds : AgentCloses(c)
    \/ \E c \in ChatIds : ChatClosedEvent(c)
    \/ TimerFires
    \/ \E c \in ChatIds, t \in BOOLEAN : SystemInfoEvent(c, t)

\* the close button hidden at page load and both buttons configured
InitClose == Init /\ closeButton = FALSE /\ conf.showCloseButton

SpecClose == InitClose /\ [][NextClose]_vars

\* the adapter after one start() has run to its end with an agent found
SessionOpen ==
    /\ cookie = TRUE /\ inputEnabled = TRUE
    /\ uploadButton = conf.fileUploadsActive
    /\ closeButton = conf.showCloseButton
    /\ shown = [k \in SystemMessages |-> IF k = "wait-for-agent" THEN 1 ELSE 0]
    /\ chat = 1
    /\ botState = "closeHidden"
    /\ monitoring = 1
    /\ emitted = [e \in PublicEvents |-> IF e = "chat:created" THEN 1 ELSE 0]
    /\ errors = 0 /\ timers = 0 /\ lastClosedTime = 0 /\ closeHandled = FALSE
    /\ script = "loaded" /\ isInit = TRUE /\ initCalls = 0
    /\ lobbyLogged = TRUE /\ lobbyChats = {1}
    /\ svc = [c \in ChatIds |-> IF c = 1 THEN "open" ELSE "none"]
    /\ listeners = [c \in ChatIds |-> IF c = 1 THEN 1 ELSE 0]
    /\ closedEvent = {}
    /\ infoEvent = {} /\ lobbyListeners = 1 /\ closing = {}
    /\ eventData = [e \in PublicEvents |-> IF e = "chat:created" THEN "wrapped" ELSE "none"]
    /\ previousToken = FALSE /\ survey = "none" /\ surveyWindow = FALSE
    /\ unread = 0 /\ transcript = <<>>
    /\ ready = TRUE
    /\ kind = [f \in Flows |-> IF f = 1 THEN "start" ELSE "none"]
    /\ pc = [f \in Flows |-> IF f = 1 THEN "done" ELSE "idle"]
    /\ steps = [f \in Flows |->
                  IF f = 1
                  THEN <<"setConnectingMode", "init", "check", "initUserSession",
                         "createChat", "getCurrentBotState", "showAllButtons",
                         "searchAgent", "setConnectedMode", "monitorUserActivity">>
                  ELSE <<>>]
    /\ target = [f \in Flows |-> IF f = 1 THEN 1 ELSE ChatUndefined]
    /\ found = [f \in Flows |-> IF f = 1 THEN "agent" ELSE "none"]
    /\ avail = [f \in Flows |-> "none"]
    /\ err = [f \in Flows |-> "none"]

\* message handling, from a page just loaded (with or without the cookie) or
\* from an open session
InitMsg ==
    /\ conf \in ConfSet
    /\ Init \/ SessionOpen
    /\ NoMessages
    /\ NoHostEvents /\ NoHistory

NextMsg ==
    \/ \E m \in Msgs, hasId \in BOOLEAN : UserMessage(m, hasId)
    \/ \E m \in Msgs : CreateCallback(m)
    \/ \E m \in Msgs, ok \in BOOLEAN : SendSettles(m, ok)
    \/ \E m \in Msgs : UploadMedia(m)
    \/ \E m \in Msgs, outcome \in UploadOutcomes : UploadSettles(m, outcome)
    \/ \E m \in Msgs, mine \in BOOLEAN : MessageRead(m, mine)
    \/ \E sender \in Senders, type \in {"text", "media"} : MessageReceived(sender, type)
    \/ \E c \in ChatIds : AgentCloses(c)
    \/ \E c \in ChatIds : ChatClosedEvent(c)
    \/ TimerFires

SpecMsg == InitMsg /\ [][NextMsg]_vars

\* what the bot, the attached chat and the window may hand to the adapter
\* around a session and its end, page reloads included
NextHost ==
    \/ \E opt \in OptionKinds : SelectSystemMessageOption(opt)
    \/ \E c \in ChatIds, ok \in BOOLEAN : CloseSettles(c, ok)
    \/ \E m \in Msgs, hasId \in BOOLEAN : UserMessage(m, hasId)
    \/ \E known \in BOOLEAN, type \in ActivityTypes : UserActivity(known, type)
    \/ \E c \in ChatIds : AgentCloses(c)
    \/ \E c \in ChatIds : ChatClosedEvent(c)
    \/ \E c \in ChatIds, hasTicket \in BOOLEAN : SystemInfoEvent(c, hasTicket)
    \/ TimerFires
    \/ WindowMessage
    \/ Construct

\* the buttons are configured on, the transcript download and the surveys
\* either way
\* the transcripts the bot may hold and the times a close may have stored,
\* in an open session with everything configured
InitHistory ==
    /\ conf \in ConfSet
    /\ conf.fileUploadsActive /\ conf.showCloseButton
    /\ conf.transcriptDownload /\ conf.surveys
    /\ SessionOpen
    /\ NoMessages /\ NoHostEvents
    /\ history \in UNION {[1..n -> BotMessages] : n \in 0..MaxHist}
    /\ filterTime \in 0..MaxTime
    /\ parsed = NoParse

NextHistory == ParseHistory

SpecHistory == InitHistory /\ [][NextHistory]_vars

\* configure() and the constructor, called on a page just loaded
InitSetup ==
    /\ Init
    /\ ~cookie /\ ~closeButton /\ unread = 0
    /\ conf.fileUploadsActive /\ conf.showCloseButton
    /\ conf.transcriptDownload /\ conf.surveys

NextSetup ==
    \/ \E c \in ConfValues : Configure(c)
    \/ \E bot \in BotInstances, c \in ConfValues : NewAdapter(bot, c)

SpecSetup == InitSetup /\ [][NextSetup]_vars

\* the bot's transcript growing over the sessions of a page, the closures
\* storing their time, and the history handed to each chat creation
NextImport ==
    \/ \E b \in BotMessages : BotLogs(b)
    \/ \E t \in 1..MaxTime : ClosureStamps(t)
    \/ \E importBotHistory \in BOOLEAN : GetChatData(importBotHistory)

SpecImport == InitSetup /\ [][NextImport]_vars

InitHost == InitMsg /\ conf.fileUploadsActive /\ conf.showCloseButton

SpecHost == InitHost /\ [][NextHost]_vars

\* ================================================================ properties
IsPrefix(a, b) == Len(a) <= Len(b) /\ \A i \in 1..Len(a) : a[i] = b[i]

NoRepeat(a) == \A i, j \in 1..Len(a) : a[i] = a[j] => i = j

LastOf(a) == IF Len(a) = 0 THEN "none" ELSE a[Len(a)]

\* session state as the adapter holds it: a flow of start() or restore() still
\* running, a chat attached, close handling done
Connecting == \E f \in Flows : pc[f] \in InFlight /\ kind[f] \in {"start", "restore"}

SessionState ==
    IF ~isEmptyChat(chat) THEN (IF closeHandled THEN "Closed" ELSE "Active")
    ELSE IF Connecting THEN "Connecting"
    ELSE "Idle"

\* C2: at most one non-closed session exists at any time: no second start() is
\* in progress while an earlier one is still suspended, and the service never
\* holds two open chats.
C2_AtMostOneSession ==
    /\ Cardinality({f \in Flows : kind[f] = "start" /\ pc[f] \in InFlight}) <= 1
    /\ Cardinality(OpenChats(World)) <= 1

OpenIffSessionLive == isChatOpen(World) <=> SessionState \notin {"Idle", "Closed"}

\* a step of start() or restore(), close handling, or clear
SessionTransition ==
    pc' # pc \/ chat' # chat \/ closeHandled' # closeHandled \/ cookie' # cookie

\* C3: after every session transition isChatOpen() is true exactly when the
\* session state is neither Idle nor Closed.
C3_IsChatOpenIffSessionLive == [][SessionTransition => OpenIffSessionLive']_vars

\* C4: start() invoked while isChatOpen() is true changes nothing: no input
\* change, no SDK load, no registration, no chat creation, no agent search, and
\* the chat handle stays as it was.
C4_StartWhileOpenIsNoOp ==
    [][\A f \in Flows :
          (kind[f] = "none" /\ kind'[f] = "start" /\ cookie)
          => /\ UNCHANGED <<worldVars, loaderVars>>
             /\ steps'[f] = <<>>
             /\ pc'[f] \notin InFlight]_vars

C4_Witness == \E f \in Flows : kind[f] = "start" /\ pc[f] = "ignored"

C5_StartOrder ==
    <<"setConnectingMode", "init", "check", "initUserSession", "createChat",
      "getCurrentBotState", "showAllButtons", "searchAgent", "setConnectedMode",
      "monitorUserActivity">>

C5_RestoreOrder ==
    <<"setConnectingMode", "init", "restoreChat", "setConnectedMode", "showAllButtons",
      "monitorUserActivity">>

\* C5: the methods a start() has called so far are a prefix of connecting-mode,
\* SDK init, availability check, user-session init, chat creation, bot-state
\* capture, show buttons, agent search, connected-mode, activity monitoring (for
\* restore(): connecting-mode, SDK init, chat reattach, connected-mode, show
\* buttons, activity monitoring), and the one step awaited is the last one called.
C5_StepsInOrder ==
    \A f \in Flows :
        /\ kind[f] = "start" => IsPrefix(steps[f], C5_StartOrder)
        /\ kind[f] = "restore" => IsPrefix(steps[f], C5_RestoreOrder)
        /\ pc[f] \in InFlight \ {"catch", "lobbyInit"} => pc[f] = LastOf(steps[f])
        /\ pc[f] = "done" /\ kind[f] = "start" => steps[f] = C5_StartOrder
        /\ pc[f] = "done" /\ kind[f] = "restore" => steps[f] = C5_RestoreOrder

C5_Witness ==
    \E f, g \in Flows :
        /\ kind[f] = "start" /\ pc[f] = "done"
        /\ kind[g] = "restore" /\ pc[g] = "done"

\* C6: a start() one of whose steps failed has, once it has ended, ended in its
\* catch (input re-enabled, error reported), with no step called a second time.
C6_FailedStartEndsInCatch ==
    \A f \in Flows :
        (kind[f] = "start" /\ err[f] # "none" /\ pc[f] \notin InFlight)
        => pc[f] = "failed" /\ NoRepeat(steps[f])

\* the ways SDKLoader.load() rejects: icf-failed, and the ReferenceError of a
\* load() made while the script tag is still loading
LoadErrors == {"icf-failed", "ReferenceError"}

LoadFailed(f) == kind[f] = "start" /\ err[f] \in LoadErrors

\* every flow begun so far is a start() whose SDK load failed and whose catch ran
OnlyLoadFailures ==
    /\ \E f \in Flows : LoadFailed(f)
    /\ \A f \in Flows : kind[f] = "none" \/ (LoadFailed(f) /\ pc[f] = "failed")

C8_RestoreFailureEnablesInput ==
    [][\A f \in Flows :
          (kind[f] = "restore" /\ pc[f] = "catch" /\ pc'[f] = "failed") => inputEnabled']_vars

\* C9: whatever the availability check reports (available, unavailable, failed
\* internally), start() goes on to user-session init and, unless that fails, to
\* chat creation.
C9_CheckNeverPreventsChat ==
    \A f \in Flows :
        avail[f] # "none"
        => \/ pc[f] \in {"initUserSession", "lobbyInit", "createChat"}
           \/ pc[f] = "catch" /\ LastOf(steps[f]) = "initUserSession"

C9_Witness ==
    \E f, g \in Flows :
        /\ pc[f] = "createChat" /\ avail[f] = "unavailable"
        /\ pc[g] = "createChat" /\ avail[g] = "error"

Rank(tick) ==
    CASE tick = "none" -> 0
      [] tick = "WAITING_TICK" -> 1
      [] tick = "SINGLE_TICK" -> 2
      [] tick = "DOUBLE_TICK" -> 4
      [] OTHER -> 5

\* C1: the tick shown for a message never goes back under Pending < Sent <
\* Delivered < Read, and the error tick, once shown, is never replaced.
C1_StatusNeverRegresses ==
    [][\A m \in Msgs :
          /\ status[m] = "ERROR_TICK" => status'[m] = "ERROR_TICK"
          /\ status'[m] # "ERROR_TICK" => Rank(status'[m]) >= Rank(status[m])]_vars

\* the lookup restoreChat makes holds a chat that is not closed
LookupFindsChat == lobbyChats # {} /\ svc[Min(lobbyChats)] # "closed"

\* C11: restoreChat attaches the non-closed chat of the lookup, registers its
\* listeners and displays its missed messages, and restore() goes on; with no
\* chat or a closed chat in the lookup it attaches no handle, registers no
\* listener and displays nothing.
C11_RestoreReattachesAndReplays ==
    [][\A f \in Flows :
          (pc[f] = "restoreChat" /\ pc'[f] # "restoreChat")
          => /\ LookupFindsChat
                => /\ chat' = Min(lobbyChats)
                   /\ listeners' = [listeners EXCEPT ![chat'] = @ + 1]
                   /\ transcript' = transcript \o [i \in 1..unread |-> MissedMessage]
                   /\ unread' = 0
                   /\ pc'[f] = "setConnectedMode"
             /\ ~LookupFindsChat
                => /\ isEmptyChat(chat') /\ chat' = chat
                   /\ UNCHANGED <<listeners, transcript, shown, unread>>
                   /\ pc'[f] = "setConnectedMode"]_vars

\* C12: once close handling has run for the attached chat, the 5 s timer does
\* the clean-up without any system:info: when it goes off the chat handle is
\* discarded, the lobby is cleared, the chat-closed message is shown and
\* lastClosedTime is persisted.
C12_TimerCleansUp ==
    [][(timers' = timers - 1 /\ closeHandled /\ ~isEmptyChat(chat))
       => /\ isEmptyChat(chat')
          /\ ~lobbyLogged' /\ ~cookie'
          /\ shown' = [shown EXCEPT !["chat-closed"] = @ + 1]
          /\ lastClosedTime' = lastClosedTime + 1]_vars

\* C13: the session follows the state machine: a chat handle is dropped (the
\* session goes to Idle) only once the chat has been closed, and after close
\* handling no other chat handle is attached before clear has dropped the
\* closed one.
C13_SessionFollowsStateMachine ==
    [][/\ (~isEmptyChat(chat) /\ isEmptyChat(chat'))
          => (closeHandled \/ svc[chat] = "closed")
       /\ (closeHandled /\ ~isEmptyChat(chat) /\ chat' # chat)
          => isEmptyChat(chat')]_vars

\* what _onUserMessage may do with a message
UserMessageOutcomes == {"next", "thrown", "ignored", "sent"}

\* onSendMessage delivers message m to _onUserMessage in this step
UserMessageStep(m) == handled[m] = "none" /\ handled'[m] \in UserMessageOutcomes

\* close handling has run and the clean-up has not
SessionClosing == closeHandled /\ ~isEmptyChat(chat)

\* C14: while the session is closing, a message given to onSendMessage is not
\* forwarded to the live-chat service: the handler does not reach
\* chat.sendMessage, and no send is counted for any message.
C14_ClosingSessionForwardsNothing ==
    [][\A m \in Msgs :
          (SessionClosing /\ UserMessageStep(m))
          => handled'[m] # "sent" /\ sends' = sends]_vars

\* C15: a message given to onSendMessage is handled once, in one of two ways:
\* with no chat open it goes to next(message) and nothing goes to the service;
\* with a chat open it goes to the send path and next is not called.
C15_NextOrSendPath ==
    [][\A m \in Msgs :
          /\ handled[m] # "none" => handled'[m] = handled[m]
          /\ UserMessageStep(m)
             => /\ ~isChatOpen(World)
                   => /\ handled'[m] = "next"
                      /\ UNCHANGED <<sends, callback, promise>>
                /\ isChatOpen(World)
                   => handled'[m] \in {"thrown", "ignored", "sent"}]_vars

\* one message went to the service while the chat was open, another to next
\* after the session was cleaned up
C15_Witness ==
    \E m, n \in Msgs : handled[m] = "sent" /\ sends[m] = 1 /\ handled[n] = "next"

\* the send of message m is rejected by the service in this step
SendRejected(m) ==
    handled[m] = "sent" /\ promise[m] = "pending" /\ promise'[m] = "rejected"

\* C16: when the service rejects a send the message gets the error tick and no
\* further send is made for it; no message is ever given to chat.sendMessage
\* more than once.
C16_AtMostOneSend ==
    [][\A m \in Msgs :
          /\ sends'[m] <= 1
          /\ SendRejected(m) => status'[m] = "ERROR_TICK" /\ sends'[m] = sends[m]
          /\ promise[m] = "rejected" => sends'[m] = sends[m]]_vars

C16_Witness ==
    \E m \in Msgs :
        /\ handled[m] = "sent" /\ promise[m] = "rejected"
        /\ status[m] = "ERROR_TICK" /\ sends[m] = 1

\* C17: a message given to onSendMessage while a chat is open and attached is
\* forwarded to the live-chat service, or else the user sees a failure: the
\* error tick on the message, or a message in the chat box.
C17_NeverDroppedSilently ==
    [][\A m \in Msgs :
          (UserMessageStep(m) /\ isChatOpen(World) /\ ~isEmptyChat(chat))
          => \/ handled'[m] = "sent" /\ sends'[m] = sends[m] + 1
             \/ status'[m] = "ERROR_TICK"
             \/ Len(transcript') > Len(transcript)
             \/ shown' # shown]_vars

\* a message:received event is handled in this step
ReceivedStep == lastEvent' # lastEvent /\ lastEvent'.event = "message:received"

\* the user message displayed for a message of this user, bound to the
\* service's message id
UserEntry(type) ==
    [type |-> "user", message |-> payload(type), media |-> FALSE,
     externalId |-> "message"]

\* the agent message displayed for a message of another sender: a media
\* payload is replaced by placeholder text and attached as media
AgentEntry(type) ==
    [type |-> "answer", message |-> IF type = "media" THEN "void" ELSE "text",
     media |-> (type = "media"), externalId |-> "none"]

\* C18, as stated: a received message of the current user is displayed as a
\* user message bound to the service's message id, and any other received
\* message is displayed as an agent message, media as placeholder text plus
\* the media descriptor.
C18_ReceivedAlwaysDisplayed ==
    [][ReceivedStep
       => transcript' = Append(transcript,
                               IF lastEvent'.sender = "me"
                               THEN UserEntry(lastEvent'.type)
                               ELSE AgentEntry(lastEvent'.type))]_vars

\* C18, amended: a received message of the current user is displayed as a user
\* message bound to the service's message id and never as an agent message;
\* a message of another sender is displayed as an agent message (media as
\* placeholder text plus the media descriptor) when the sender id is a
\* string, and is not displayed at all when it is not.
C18_ReceivedDisplayedByStringSender ==
    [][ReceivedStep
       => transcript' =
             IF lastEvent'.sender = "me"
             THEN Append(transcript, UserEntry(lastEvent'.type))
             ELSE IF isString(lastEvent'.sender)
             THEN Append(transcript, AgentEntry(lastEvent'.type))
             ELSE transcript]_vars

\* a message of this user was displayed, then a media message of an agent
C18_Witness ==
    /\ lastEvent.event = "message:received"
    /\ lastEvent.sender = "agent" /\ lastEvent.type = "media"
    /\ transcript = <<UserEntry("text"), AgentEntry("media")>>

\* a message:read event is handled in this step
ReadStep == lastEvent' # lastEvent /\ lastEvent'.event = "message:read"

\* C19: a message gets the double tick only in a message:read event about that
\* message with the current user as its sender, and only from the single tick
\* (Sent), never from the pending or the error tick; a message:read event
\* about another sender's message changes no tick.
C19_ReadOnlyOwnSent ==
    [][/\ \A m \in Msgs :
             (status'[m] = "DOUBLE_TICK" /\ status[m] # "DOUBLE_TICK")
             => /\ ReadStep
                /\ lastEvent'.sender = "me" /\ lastEvent'.msg = m
                /\ status[m] = "SINGLE_TICK"
       /\ (ReadStep /\ lastEvent'.sender # "me") => status' = status]_vars

\* one message was read by the agent; a read event for the other, still
\* pending, left its tick alone
C19_Witness ==
    \E m, n \in Msgs :
        /\ status[m] = "DOUBLE_TICK"
        /\ status[n] = "WAITING_TICK"
        /\ lastEvent.event = "message:read" /\ lastEvent.sender = "me"
        /\ lastEvent.msg = n

\* _onUploadMedia runs for message m, with the SDK loaded, in this step
UploadStep(m) == handled[m] = "none" /\ handled'[m] \in {"uploadThrown", "uploaded"}

\* chat.sendMedia() for message m settles in this step
UploadSettled(m) ==
    handled[m] = "uploaded" /\ promise[m] = "pending" /\ promise'[m] # "pending"

\* C20: an upload first gives the message the pending tick; when sendMedia
\* succeeds the message gets its external id and the single tick; when it
\* fails because the file type is not allowed the file-extension-not-allowed
\* system message is displayed; on any other failure the message gets the
\* error tick and no system message is displayed.
C20_UploadOutcome ==
    [][\A m \in Msgs :
          /\ UploadStep(m) => status'[m] = "WAITING_TICK"
          /\ UploadSettled(m)
             => /\ status[m] = "WAITING_TICK"
                /\ promise'[m] = "resolved"
                   => /\ status'[m] = "SINGLE_TICK"
                      /\ externalId'[m] = "message"
                      /\ shown' = shown
                /\ promise'[m] = "notAllowed"
                   => shown' = [shown EXCEPT !["file-extension-not-allowed"] = @ + 1]
                /\ promise'[m] = "rejected"
                   => /\ status'[m] = "ERROR_TICK"
                      /\ shown' = shown]_vars

\* one upload went through, another was refused for its file type
C20_Witness ==
    \E m, n \in Msgs :
        /\ handled[m] = "uploaded" /\ promise[m] = "resolved"
        /\ status[m] = "SINGLE_TICK" /\ externalId[m] = "message"
        /\ handled[n] = "uploaded" /\ promise[n] = "notAllowed"
        /\ shown["file-extension-not-allowed"] = 1

\* onUploadMedia delivers the upload of message m to _onUploadMedia in this step
UploadHandled(m) ==
    handled[m] = "none" /\ handled'[m] \in {"uploadIgnored", "uploadThrown", "uploaded"}

\* C21: a handler that takes a next continuation calls it whenever it does not
\* consume the event: an upload that arrives when the handler does nothing
\* with it (no tick set, nothing handed to the service) goes to next.
C21_NextWhenNotConsumed ==
    [][\A m \in Msgs :
          (UploadHandled(m) /\ status' = status /\ promise' = promise)
          => handled'[m] = "next"]_vars

\* C23: the data emitted with a public event is the data the originating
\* platform event delivered (as it is, wrapped, or the part of it the event is
\* about), on every path that emits the event; it is never an object the
\* adapter made up.
C23_PayloadAsDelivered ==
    \A e \in PublicEvents : eventData[e] \in {"none", "delivered", "wrapped", "part"}

C27_TokenWrittenOnlyIfUnavailable ==
    [][(previousToken' /\ ~previousToken) => ~getToken(World)]_vars

\* C27, amended: the previousToken key is written only by clear(), only with
\* the transcript download configured, and only when the connection has a
\* token of its own at that moment; it is that token which is stored.
C27_TokenWrittenOnlyIfAvailable ==
    [][(previousToken' # previousToken)
       => /\ previousToken'
          /\ conf.transcriptDownload /\ getToken(World)
          /\ isEmptyChat(chat') /\ ~lobbyLogged']_vars

\* a session was cleaned up while the connection had its token
C27_Witness ==
    previousToken /\ conf.transcriptDownload /\ chat = ChatEmpty /\ lastClosedTime > 0

\* a system-message option has been handed to the adapter in this step
OptionStep == lastOption' # lastOption

\* C22: an option that is not the transcript download, selected while no chat
\* is open, is passed to next unchanged: no transcript download, no close
\* request, no close handling, nothing of the adapter or the page changes
C22_OtherOptionGoesToNext ==
    [][(OptionStep /\ lastOption'.kind # "ticketData" /\ ~isChatOpen(World))
        => /\ lastOption'.result = "next"
           /\ lastOption'.token = "none"
           /\ UNCHANGED worldVars]_vars

C22_Witness ==
    /\ lastOption.kind = "closeYes" /\ lastOption.result = "next"
    /\ ~cookie /\ chat = ChatEmpty

\* a user:activity event has been handled in this step
ActivityStep == lastActivity' # lastActivity

\* C24: a user:activity event whose userId matches no user of the chat is a
\* no-op: the typing indicator is neither shown nor hidden and no error is
\* raised
C24_UnknownUserActivityIgnored ==
    [][(ActivityStep /\ ~lastActivity'.known)
        => lastActivity'.result = "none" /\ typing' = typing]_vars

\* the open-chat marker is set and the adapter holds no chat
MarkerWithoutChat == isChatOpen(World) /\ isEmptyChat(chat)

\* C25: with the open-chat marker set and no chat handle, a message given to
\* the adapter raises 'No open chat' and the service is not contacted, and a
\* close request fails (raised or rejected) with no close handling: no
\* chat:closed, no lastClosedTime written, nothing else changed
C25_InvalidOperationOnlyFails ==
    [][MarkerWithoutChat
        => /\ \A m \in Msgs :
                UserMessageStep(m)
                => /\ handled'[m] = "thrown"
                   /\ sends' = sends /\ promise' = promise
                   /\ UNCHANGED worldVars
           /\ (OptionStep /\ lastOption'.kind = "closeYes")
                => /\ lastOption'.result \in {"raised", "rejected"}
                   /\ UNCHANGED worldVars]_vars

C25_Witness ==
    /\ MarkerWithoutChat
    /\ \E m \in Msgs : handled[m] = "thrown"
    /\ lastOption.kind = "closeYes" /\ lastOption.result \in {"raised", "rejected"}

\* a new adapter has been constructed in this step
ConstructStep == loads' # loads

\* C30: every construction of the adapter shows the stored survey exactly when
\* it is pending, and leaves it stored as it was; a survey stops being pending
\* only by its acknowledgement, which closes the survey window and stores it as
\* answered, so that no later construction shows it; a survey newly stored as
\* pending is shown
C30_PendingSurveyShownUntilAnswered ==
    [][/\ ConstructStep => surveyWindow' = (survey = "pending") /\ survey' = survey
       /\ (survey = "pending" /\ survey' # "pending")
            => survey' = "answered" /\ ~surveyWindow' /\ ~ConstructStep
       /\ (surveyWindow /\ ~surveyWindow' /\ ~ConstructStep) => survey' = "answered"
       /\ (survey # "pending" /\ survey' = "pending") => surveyWindow']_vars

C30_Witness ==
    /\ loads >= 1 /\ chat = ChatUndefined
    /\ survey = "pending" /\ surveyWindow

\* the transcript has been parsed in this step
ParseStep == parsed'.calls # parsed.calls

\* the positions of the transcript after the cutoff, and the k-th of them
KeptEntries == {i \in 1..Len(history) : filterTime = 0 \/ history[i].datetime > filterTime}
KeptEntry(k) == CHOOSE i \in KeptEntries : Cardinality({j \in KeptEntries : j < i}) = k - 1

\* C28: parsing the same transcript with the same filterTime again gives the
\* same output; the output has exactly one message for each entry later than
\* filterTime, in transcript order, and none at or before it; with no cutoff
\* it has one message for every entry
C28_HistoryFilteredByTime ==
    [][ParseStep
        => /\ parsed.calls > 0 => parsed'.out = parsed.out
           /\ Len(parsed'.out) = Cardinality(KeptEntries)
           /\ \A k \in 1..Len(parsed'.out) :
                /\ parsed'.out[k].created = history[KeptEntry(k)].datetime
                /\ parsed'.out[k].created > filterTime
           /\ filterTime = 0 => Len(parsed'.out) = Len(history)]_vars

C28_Witness ==
    /\ parsed.calls = 2 /\ Len(history) = 2 /\ filterTime = 2
    /\ history[1].datetime = 1 /\ history[2].datetime = 3
    /\ Len(parsed.out) = 1 /\ parsed.out[1].created = 3

\* C29: the sender of a parsed message is assistant for a system entry
\* whatever its recorded user; otherwise the attached hyperchat sender id if
\* there is one; otherwise the current user's id for the guest user; otherwise
\* the recorded user
C29_HistorySender ==
    [][ParseStep
        => \A k \in 1..Len(parsed'.out) :
             LET b == history[KeptEntry(k)] IN
             parsed'.out[k].sender =
                CASE b.type = "system" -> "assistant"
                  [] b.type # "system" /\ b.hyperchatSenderId # "none" -> b.hyperchatSenderId
                  [] b.type # "system" /\ b.hyperchatSenderId = "none" /\ b.user = "guest" -> "me"
                  [] OTHER -> b.user]_vars

C29_Witness ==
    /\ parsed.calls > 0 /\ filterTime = 0 /\ Len(parsed.out) = 2
    /\ history[1].type = "system" /\ history[1].hyperchatSenderId = "hc"
    /\ parsed.out[1].sender = "assistant"
    /\ history[2].type = "answer" /\ history[2].user = "guest"
    /\ history[2].hyperchatSenderId = "hc" /\ parsed.out[2].sender = "hc"

\* C31: a construction that throws registers no subscription on the bot, and
\* a bot instance the validity check accepts is constructed without an error
C31_InvalidBotThrowsBeforeSubscribing ==
    [][(setup'.call # setup.call /\ setup'.call.op = "construct")
        => /\ setup'.call.result = "thrown" => setup'.call.subscribed = {}
           /\ checkIsBotInstance(setup'.call.bot) => setup'.call.result = "built"]_vars

\* C32: a configuration object that is not valid is rejected with an error
\* where it is given, to configure() or as the second argument of the
\* constructor, and the stored configuration stays as it was
C32_InvalidConfRejected ==
    [][(setup'.call # setup.call /\ ~validate(setup'.call.values))
        => setup'.call.result = "thrown" /\ setup'.stored = setup.stored]_vars

\* C33: the history handed to a chat creation holds no entry of the
\* transcript made at or before the lastClosedTime a closure before it has
\* stored; the stored time never goes back, so the one in the storage is at
\* least that of every earlier closure
C33_ImportedHistoryAfterLastClose ==
    [][/\ filterTime' >= filterTime
       /\ parsed'.calls # parsed.calls
            => \A k \in 1..Len(parsed'.out) : parsed'.out[k].created > filterTime]_vars

C33_Witness ==
    /\ parsed.calls > 0 /\ filterTime = 2 /\ Len(history) = 2
    /\ history[1].datetime = 2 /\ history[2].datetime = 3
    /\ Len(parsed.out) = 1 /\ parsed.out[1].created = 3

\* C34: the adapter has one handler for each inbound event however many
\* sessions it has been through: a system:info notification runs its handler
\* once, so the delivery of one notification shows the chat-closed message
\* once and writes lastClosedTime once
C34_OneNotificationOneCleanup ==
    [][(infoEvent' # infoEvent /\ infoEvent' \subseteq infoEvent)
        => /\ shown'["chat-closed"] <= shown["chat-closed"] + 1
           /\ lastClosedTime' <= lastClosedTime + 1]_vars

\* C35: a timer that goes off while a chat is attached whose closure has not
\* been handled was armed by the closure of an earlier session; it leaves the
\* attached chat, the lobby and the open-chat marker of the new session as
\* they are
C35_TimerSparesNewSession ==
    [][(timers' = timers - 1 /\ chat \in ChatIds /\ ~closeHandled /\ svc[chat] = "open")
        => /\ chat' = chat
           /\ lobbyLogged' = lobbyLogged /\ lobbyChats' = lobbyChats
           /\ cookie' = cookie]_vars

\* C36: close handling runs once for a closure: whatever closes a chat, the
\* step that handles it emits chat:closed once and arms one timer
C36_CloseHandledOnce ==
    [][/\ emitted'["chat:closed"] <= emitted["chat:closed"] + 1
       /\ timers' <= timers + 1]_vars

\* C37: a load() that has not settled has something left to settle it: the
\* script is still loading, or an ICF.init() call has yet to settle and emit
\* icf-ready or icf-failed
C37_PendingLoadWillSettle ==
    \A f \in Flows : pc[f] = "init" => (script = "loading" \/ initCalls > 0)

====
